---- MODULE Spec2Model ----
(***************************************************************************)
(* Aetheria Chronicles: the game-state reducer (gameReducer), the turn     *)
(* resolver (App.handleAction with services/geminiService.generateGameTurn)*)
(* and the presentation handlers that reach them (App, CombatView,         *)
(* Inventory, MainMenu).                                                   *)
(*                                                                         *)
(* A React render closes over the values of `state`, `isProcessing` and    *)
(* `cooldown` it was rendered with.  A handler invoked from a DOM event    *)
(* belongs to the latest render; a handler captured by a timer belongs to  *)
(* the render in which the timer was started.  The closure a handler runs  *)
(* with is therefore an explicit argument of the handler operators below.  *)
(***************************************************************************)
EXTENDS Integers, Sequences, FiniteSets, TLC

\* ------------------------------------------------------------------ bounds

\* accepted turns (narrator calls) explored in one behaviour
MaxTurns == 2
\* games entered from the main menu (begun or loaded) in one behaviour
MaxGames == 1
\* die animations of CombatView that may be running at the same time
MaxRolls == 1
\* drop / equip / unequip requests of the inventory panel in one behaviour
MaxInventoryOps == 1
\* reducer actions dispatched in one behaviour of SpecReducer
MaxDispatch == 3
\* inventory actions dispatched in one behaviour of SpecInventory
MaxInventorySteps == 4
\* games entered from the main menu in one behaviour of SpecSessions
MaxSessions == 2

\* ------------------------------------------------------- program constants

InitialHp == 12
InitialSupplies == 3
InitialGold == 10
LevelXp == 100
LevelHpBonus == 5
DefaultEnemyHp == 10

\* --------------------------------------------------------------- utilities

Max(a, b) == IF a >= b THEN a ELSE b
Min(a, b) == IF a <= b THEN a ELSE b

RECURSIVE findIndex(_, _, _)
\* Array.prototype.findIndex(i => i.name === name), 1-based; 0 stands for -1
findIndex(inv, name, from) ==
    IF from > Len(inv) THEN 0
    ELSE IF inv[from].name = name THEN from
    ELSE findIndex(inv, name, from + 1)

\* Array.prototype.splice(idx, 1)
splice(seq, idx) == SubSeq(seq, 1, idx - 1) \o SubSeq(seq, idx + 1, Len(seq))

\* Number.prototype.toString for the coordinates the bounds allow
IntStr(n) ==
    LET d == <<"0", "1", "2", "3", "4", "5", "6", "7", "8", "9">>
        a == IF n < 0 THEN 0 - n ELSE n
        digits == IF a < 10 THEN d[a + 1] ELSE d[(a \div 10) + 1] \o d[(a % 10) + 1]
    IN IF n < 0 THEN "-" \o digits ELSE digits

\* the template literal `${x},${y}`
TileKey(x, y) == IntStr(x) \o "," \o IntStr(y)

\* { ...a, ...b } on string-keyed objects
Merge(a, b) ==
    [k \in DOMAIN a \cup DOMAIN b |-> IF k \in DOMAIN b THEN b[k] ELSE a[k]]

\* A number field the reply lacks is `undefined`, and `hp + undefined` is NaN:
\* Math.max and Math.min hand NaN on, and every comparison with it is false.
\* NaN is kept apart from the numbers of the game by a value none of them takes.
NaN == -1000000
plus(a, b) == IF a = NaN \/ b = NaN THEN NaN ELSE a + b
mathMax(a, b) == IF a = NaN \/ b = NaN THEN NaN ELSE Max(a, b)
mathMin(a, b) == IF a = NaN \/ b = NaN THEN NaN ELSE Min(a, b)
lessOrEqual(a, b) == a # NaN /\ b # NaN /\ a <= b

\* ------------------------------------------------------------ entity model

\* An Item keeps the fields the reducer reads: name, quantity, slot, equipped.
\* slot = "" stands for an absent slot; an absent `equipped` is falsy (FALSE).
Item(id, name, quantity, slot, equipped) ==
    [id |-> id, name |-> name, quantity |-> quantity, slot |-> slot, equipped |-> equipped]

LogEntry(sender, content) == [sender |-> sender, content |-> content]

createInitialState(id, characterName) ==
    [ id |-> id,
      player |->
        [ name |-> characterName,
          reputation |-> 0,
          gold |-> InitialGold,
          stats |-> [hp |-> InitialHp, maxHp |-> InitialHp, xp |-> 0, level |-> 1,
                     supplies |-> InitialSupplies],
          inventory |-> << Item("1", "Iron Shortsword", 1, "hand", TRUE),
                           Item("2", "Leather Jerkin", 1, "body", TRUE),
                           Item("3", "Quest Log", 1, "", FALSE) >>,
          activeQuests |-> << >>,
          journal |-> << "Arrived at the Gilded Griffin Inn." >>,
          position |-> [x |-> 0, y |-> 0] ],
      world |->
        [ locationName |-> "The Gilded Griffin Inn",
          locationDescription |-> "A warm, bustling tavern smelling of roasted boar and ale.",
          npcMemory |-> [n \in {"Barnaby", "Stranger"} |->
                            IF n = "Barnaby" THEN "Friendly" ELSE "Watchful"],
          mapData |-> [tiles |-> [k \in {"0,0"} |-> [type |-> "INN", visited |-> TRUE]]] ],
      combat |-> [isActive |-> FALSE],
      gameLog |-> << LogEntry("dm", "Welcome") >>,
      turnCount |-> 0,
      isGameOver |-> FALSE ]

\* ----------------------------------------------------------------- reducer

Act(type, payload) == [type |-> type, payload |-> payload]

\* The cases of gameReducer that leave the switch with `return`, so that the
\* auto-save below the switch is not reached.
EarlyReturn(state, action) ==
    CASE action.type = "LOAD_STATE" -> TRUE
      [] action.type = "RESTART" -> TRUE
      [] action.type \in {"REMOVE_ITEM", "DROP_ITEM", "UNEQUIP_ITEM"} ->
            findIndex(state.player.inventory, action.payload, 1) = 0
      [] action.type = "EQUIP_ITEM" ->
            LET idx == findIndex(state.player.inventory, action.payload, 1)
            IN idx = 0 \/ state.player.inventory[idx].slot = ""
      [] action.type = "UPDATE_COMBAT" ->
            ~state.combat.isActive \/ state.combat.enemyHp = 0
      [] OTHER -> FALSE

\* mutant: the payload is spread over the default state one level deep only
LOAD_STATE_shallow(state, payload) ==
    LET defaultState == createInitialState(payload.id, payload.player.name)
        player == Merge(defaultState.player, payload.player)
        world == Merge(defaultState.world, payload.world)
    IN Merge(Merge(defaultState, payload), [player |-> player, world |-> world])

\* A payload is an object parsed from localStorage: a field an older save does
\* not have is absent from the record's DOMAIN.  `x || d` is d for an absent x
\* (and for 0, where d is 0 too); spreading an absent `stats` adds nothing.
LOAD_STATE(state, payload) ==
    LET defaultState == createInitialState(payload.id, payload.player.name)
        has(f) == f \in DOMAIN payload.player
        player == Merge(Merge(defaultState.player, payload.player),
                        [ gold |-> IF has("gold") THEN payload.player.gold ELSE 0,
                          journal |-> IF has("journal") THEN payload.player.journal
                                      ELSE << >>,
                          stats |-> Merge(defaultState.player.stats,
                                          IF has("stats") THEN payload.player.stats
                                          ELSE << >>) ])
        world == Merge(defaultState.world, payload.world)
    IN Merge(Merge(defaultState, payload), [player |-> player, world |-> world])

\* mutant: RESTART begins the game anew
RESTART_fresh(state) == createInitialState(state.id, state.player.name)

RESTART(state) == state

\* mutant: an entry equal to the last one is not logged again
ADD_LOG_dedup(state, payload) ==
    IF state.gameLog # << >> /\ state.gameLog[Len(state.gameLog)] = payload THEN state
    ELSE [state EXCEPT !.gameLog = Append(state.gameLog, payload)]

ADD_LOG(state, payload) ==
    [state EXCEPT !.gameLog = Append(state.gameLog, payload)]

UPDATE_STATS(state, payload) ==
    [state EXCEPT !.player.stats = Merge(state.player.stats, payload)]

\* mutant: the purse has no floor
UPDATE_GOLD_noFloor(state, payload) ==
    [state EXCEPT !.player.gold = state.player.gold + payload]

UPDATE_GOLD(state, payload) ==
    [state EXCEPT !.player.gold = Max(0, state.player.gold + payload)]

\* mutant: an item that is worn or wielded is not stacked on
ADD_ITEM_besideEquipped(state, payload) ==
    LET inv == state.player.inventory
        idx == findIndex(inv, payload.name, 1)
    IN IF idx > 0 /\ ~inv[idx].equipped
       THEN [state EXCEPT !.player.inventory[idx].quantity = inv[idx].quantity + payload.quantity]
       ELSE [state EXCEPT !.player.inventory = Append(inv, [payload EXCEPT !.equipped = FALSE])]

\* mutant: every ADD_ITEM appends an entry of its own
ADD_ITEM_append(state, payload) ==
    [state EXCEPT !.player.inventory =
        Append(state.player.inventory, [payload EXCEPT !.equipped = FALSE])]

ADD_ITEM(state, payload) ==
    LET inv == state.player.inventory
        idx == findIndex(inv, payload.name, 1)
    IN IF idx > 0
       THEN [state EXCEPT !.player.inventory[idx].quantity = inv[idx].quantity + payload.quantity]
       ELSE [state EXCEPT !.player.inventory = Append(inv, [payload EXCEPT !.equipped = FALSE])]

REMOVE_ITEM(state, payload) ==
    LET inv == state.player.inventory
        idx == findIndex(inv, payload, 1)
    IN IF idx = 0 THEN state
       ELSE IF inv[idx].quantity > 1
       THEN [state EXCEPT !.player.inventory[idx].quantity = inv[idx].quantity - 1]
       ELSE [state EXCEPT !.player.inventory = splice(inv, idx)]

DROP_ITEM(state, payload) ==
    LET inv == state.player.inventory
        idx == findIndex(inv, payload, 1)
    IN IF idx = 0 THEN state
       ELSE [state EXCEPT !.player.inventory = splice(inv, idx)]

\* mutant: the item is equipped without unequipping the others of its slot
EQUIP_ITEM_keepOthers(state, payload) ==
    LET inv == state.player.inventory
        idx == findIndex(inv, payload, 1)
    IN IF idx = 0 THEN state
       ELSE IF inv[idx].slot = "" THEN state
       ELSE [state EXCEPT !.player.inventory[idx].equipped = TRUE]

EQUIP_ITEM(state, payload) ==
    LET inv == state.player.inventory
        idx == findIndex(inv, payload, 1)
    IN IF idx = 0 THEN state
       ELSE IF inv[idx].slot = "" THEN state
       ELSE LET item == inv[idx]
                newInv == [i \in 1..Len(inv) |->
                             IF inv[i].slot = item.slot /\ inv[i].equipped
                             THEN [inv[i] EXCEPT !.equipped = FALSE]
                             ELSE inv[i]]
            IN [state EXCEPT !.player.inventory = [newInv EXCEPT ![idx].equipped = TRUE]]

UNEQUIP_ITEM(state, payload) ==
    LET inv == state.player.inventory
        idx == findIndex(inv, payload, 1)
    IN IF idx = 0 THEN state
       ELSE [state EXCEPT !.player.inventory[idx].equipped = FALSE]

SET_LOCATION(state, payload) ==
    [state EXCEPT !.world.locationName = payload.name,
                  !.world.locationDescription = payload.desc]

UPDATE_NPC_MEMORY(state, payload) ==
    [state EXCEPT !.world.npcMemory = Merge(state.world.npcMemory, payload)]

UPDATE_REPUTATION(state, payload) ==
    [state EXCEPT !.player.reputation = state.player.reputation + payload]

ADD_JOURNAL(state, payload) ==
    [state EXCEPT !.player.journal = Append(state.player.journal, payload)]

\* mutant: the quests are marked before the new one is appended
UPDATE_QUESTS_markFirst(state, payload) ==
    LET old == state.player.activeQuests
        marked == [i \in 1..Len(old) |->
                     IF old[i].id = payload.completedId
                     THEN [old[i] EXCEPT !.completed = TRUE]
                     ELSE old[i]]
    IN [state EXCEPT !.player.activeQuests =
                        (IF payload.completedId # "" THEN marked ELSE old) \o payload.new]

\* payload.new is a sequence of at most one quest; payload.completedId = "" when absent
UPDATE_QUESTS(state, payload) ==
    LET pushed == state.player.activeQuests \o payload.new
        marked == [i \in 1..Len(pushed) |->
                     IF pushed[i].id = payload.completedId
                     THEN [pushed[i] EXCEPT !.completed = TRUE]
                     ELSE pushed[i]]
    IN [state EXCEPT !.player.activeQuests =
                        IF payload.completedId # "" THEN marked ELSE pushed]

\* mutant: the map keeps the tile the player stands on and forgets the others
UPDATE_MAP_onlyCurrent(state, payload) ==
    LET x0 == state.player.position.x
        y0 == state.player.position.y
        y == IF payload.direction = "NORTH" THEN y0 + 1
             ELSE IF payload.direction = "SOUTH" THEN y0 - 1 ELSE y0
        x == IF payload.direction = "EAST" THEN x0 + 1
             ELSE IF payload.direction = "WEST" THEN x0 - 1 ELSE x0
        key == TileKey(x, y)
        tile == [type |-> payload.terrain, visited |-> TRUE]
    IN [state EXCEPT !.player.position = [x |-> x, y |-> y],
                     !.world.mapData.tiles = [k \in {key} |-> tile]]

\* mutant: the tile is written where the player stood before the step
UPDATE_MAP_tileBehind(state, payload) ==
    LET x0 == state.player.position.x
        y0 == state.player.position.y
        y == IF payload.direction = "NORTH" THEN y0 + 1
             ELSE IF payload.direction = "SOUTH" THEN y0 - 1 ELSE y0
        x == IF payload.direction = "EAST" THEN x0 + 1
             ELSE IF payload.direction = "WEST" THEN x0 - 1 ELSE x0
        key == TileKey(x0, y0)
        tile == [type |-> payload.terrain, visited |-> TRUE]
    IN [state EXCEPT !.player.position = [x |-> x, y |-> y],
                     !.world.mapData.tiles =
                        Merge(state.world.mapData.tiles, [k \in {key} |-> tile])]

\* mutant: y grows southwards, as on a screen
UPDATE_MAP_flipY(state, payload) ==
    LET x0 == state.player.position.x
        y0 == state.player.position.y
        y == IF payload.direction = "NORTH" THEN y0 - 1
             ELSE IF payload.direction = "SOUTH" THEN y0 + 1 ELSE y0
        x == IF payload.direction = "EAST" THEN x0 + 1
             ELSE IF payload.direction = "WEST" THEN x0 - 1 ELSE x0
        key == TileKey(x, y)
        tile == [type |-> payload.terrain, visited |-> TRUE]
    IN [state EXCEPT !.player.position = [x |-> x, y |-> y],
                     !.world.mapData.tiles =
                        Merge(state.world.mapData.tiles, [k \in {key} |-> tile])]

\* mutant: a tile that is already on the map is kept as it is
UPDATE_MAP_keepFirst(state, payload) ==
    LET x0 == state.player.position.x
        y0 == state.player.position.y
        y == IF payload.direction = "NORTH" THEN y0 + 1
             ELSE IF payload.direction = "SOUTH" THEN y0 - 1 ELSE y0
        x == IF payload.direction = "EAST" THEN x0 + 1
             ELSE IF payload.direction = "WEST" THEN x0 - 1 ELSE x0
        key == TileKey(x, y)
        tile == [type |-> payload.terrain, visited |-> TRUE]
    IN [state EXCEPT !.player.position = [x |-> x, y |-> y],
                     !.world.mapData.tiles =
                        Merge([k \in {key} |-> tile], state.world.mapData.tiles)]

UPDATE_MAP(state, payload) ==
    LET x0 == state.player.position.x
        y0 == state.player.position.y
        y == IF payload.direction = "NORTH" THEN y0 + 1
             ELSE IF payload.direction = "SOUTH" THEN y0 - 1 ELSE y0
        x == IF payload.direction = "EAST" THEN x0 + 1
             ELSE IF payload.direction = "WEST" THEN x0 - 1 ELSE x0
        key == TileKey(x, y)
        tile == [type |-> payload.terrain, visited |-> TRUE]
    IN [state EXCEPT !.player.position = [x |-> x, y |-> y],
                     !.world.mapData.tiles =
                        Merge(state.world.mapData.tiles, [k \in {key} |-> tile])]

START_COMBAT(state, payload) ==
    [state EXCEPT !.combat =
        [isActive |-> TRUE, enemyName |-> payload.name, enemyHp |-> payload.hp,
         enemyMaxHp |-> payload.hp, enemyDescription |-> payload.desc,
         enemyType |-> payload.type]]

UPDATE_COMBAT(state, payload) ==
    IF ~state.combat.isActive THEN state
    ELSE IF state.combat.enemyHp = 0 THEN state
    ELSE [state EXCEPT !.combat.enemyHp = Max(0, state.combat.enemyHp - payload.damage)]

END_COMBAT(state) == [state EXCEPT !.combat = [isActive |-> FALSE]]

\* mutant: the end of the game ends the fight as well
GAME_OVER_endsCombat(state) ==
    [state EXCEPT !.isGameOver = TRUE, !.combat = [isActive |-> FALSE]]

GAME_OVER(state) == [state EXCEPT !.isGameOver = TRUE]

\* the state gameReducer returns
gameReducer(state, action) ==
    CASE action.type = "LOAD_STATE" -> LOAD_STATE(state, action.payload)
      [] action.type = "RESTART" -> RESTART(state)
      [] action.type = "ADD_LOG" -> ADD_LOG(state, action.payload)
      [] action.type = "UPDATE_STATS" -> UPDATE_STATS(state, action.payload)
      [] action.type = "UPDATE_GOLD" -> UPDATE_GOLD(state, action.payload)
      [] action.type = "ADD_ITEM" -> ADD_ITEM(state, action.payload)
      [] action.type = "REMOVE_ITEM" -> REMOVE_ITEM(state, action.payload)
      [] action.type = "DROP_ITEM" -> DROP_ITEM(state, action.payload)
      [] action.type = "EQUIP_ITEM" -> EQUIP_ITEM(state, action.payload)
      [] action.type = "UNEQUIP_ITEM" -> UNEQUIP_ITEM(state, action.payload)
      [] action.type = "SET_LOCATION" -> SET_LOCATION(state, action.payload)
      [] action.type = "UPDATE_NPC_MEMORY" -> UPDATE_NPC_MEMORY(state, action.payload)
      [] action.type = "UPDATE_REPUTATION" -> UPDATE_REPUTATION(state, action.payload)
      [] action.type = "ADD_JOURNAL" -> ADD_JOURNAL(state, action.payload)
      [] action.type = "UPDATE_QUESTS" -> UPDATE_QUESTS(state, action.payload)
      [] action.type = "UPDATE_MAP" -> UPDATE_MAP(state, action.payload)
      [] action.type = "START_COMBAT" -> START_COMBAT(state, action.payload)
      [] action.type = "UPDATE_COMBAT" -> UPDATE_COMBAT(state, action.payload)
      [] action.type = "END_COMBAT" -> END_COMBAT(state)
      [] action.type = "GAME_OVER" -> GAME_OVER(state)
      [] OTHER -> state

\* mutant: GAME_OVER is saved like every other action
autoSave_always(store, state, action) ==
    IF EarlyReturn(state, action) THEN store
    ELSE LET newState == gameReducer(state, action)
         IN Merge(store, [k \in {newState.id} |-> newState])

\* localStorage 'aetheria_saves' after gameReducer(state, action) has run:
\* an object from save id to GameState (saves[newState.id] = newState)
autoSave(store, state, action) ==
    IF EarlyReturn(state, action) \/ action.type = "GAME_OVER" THEN store
    ELSE LET newState == gameReducer(state, action)
         IN Merge(store, [k \in {newState.id} |-> newState])

RECURSIVE dispatchAll(_, _, _)
\* React applies the queued actions of one handler in dispatch order
dispatchAll(state, store, actions) ==
    IF actions = << >> THEN [state |-> state, saves |-> store]
    ELSE LET applied == { [ state |-> gameReducer(state, Head(actions)),
                            saves |-> autoSave(store, state, Head(actions)),
                            rest |-> Tail(actions) ] }
         IN CHOOSE r \in { dispatchAll(n.state, n.saves, n.rest) : n \in applied } : TRUE

\* ---------------------------------------------------------------- narrator

\* The fields of AIResponse.  An absent optional field is the value JavaScript
\* treats alike: 0, "", FALSE, or an empty sequence for an absent array, quest
\* or memory list.
Quiet ==
    [ narrative |-> "You look around.",
      hp_change |-> 0, xp_gained |-> 0, supplies_consumed |-> 0, gold_change |-> 0,
      items_added |-> << >>, items_removed_names |-> << >>,
      new_location_name |-> "", new_location_description |-> "",
      updated_npc_memories |-> << >>,
      reputation_change |-> 0,
      new_quest |-> << >>, quest_completed_id |-> "",
      new_journal_entry |-> "",
      suggested_actions |-> << "Rest" >>,
      is_game_over |-> FALSE,
      movement_direction |-> "NONE", current_terrain_type |-> "INN",
      combat_start |-> FALSE, enemy_name |-> "", enemy_desc |-> "", enemy_type |-> "",
      enemy_hp |-> 0, enemy_damage_taken |-> 0, combat_ended |-> FALSE ]

Dagger == Item("d", "Dagger", 1, "hand", FALSE)
Torch == Item("t", "Torch", 2, "", FALSE)
RatQuest == [id |-> "q1", completed |-> FALSE]

Strike ==
    [Quiet EXCEPT !.narrative = "You trade blows.", !.hp_change = -5,
                  !.supplies_consumed = 1, !.enemy_damage_taken = 4]
Fall == [Quiet EXCEPT !.narrative = "You fall.", !.hp_change = -20]
Deed ==
    [Quiet EXCEPT !.narrative = "A great deed.", !.hp_change = 50, !.supplies_consumed = 5,
                  !.xp_gained = 250, !.gold_change = 5, !.suggested_actions = << >>]
Gear ==
    [Quiet EXCEPT !.narrative = "You find gear.", !.items_added = << Dagger, Torch >>,
                  !.items_removed_names = << "Quest Log" >>]
Rat ==
    [Quiet EXCEPT !.narrative = "A rat attacks!", !.combat_start = TRUE,
                  !.enemy_name = "Rat", !.enemy_hp = 6]
Everything ==
    [Quiet EXCEPT !.narrative = "Everything happens.",
                  !.hp_change = -20, !.xp_gained = 100, !.supplies_consumed = 1,
                  !.gold_change = -20,
                  !.items_added = << Torch >>, !.items_removed_names = << "Leather Jerkin" >>,
                  !.new_location_name = "Dark Forest",
                  !.new_location_description = "Tall pines.",
                  !.updated_npc_memories = << [npcName |-> "Barnaby", memory |-> "Hostile"] >>,
                  !.reputation_change = -1,
                  !.new_quest = << RatQuest >>, !.quest_completed_id = "q1",
                  !.new_journal_entry = "The rat king stirs.",
                  !.movement_direction = "NORTH", !.current_terrain_type = "FOREST",
                  !.combat_start = TRUE, !.enemy_name = "Rat King", !.enemy_hp = 8,
                  !.enemy_damage_taken = 3, !.combat_ended = TRUE,
                  !.is_game_over = TRUE]

\* The structured replies (rawData) the narrator gives in this model.
Responses == { Quiet, Strike, Fall, Deed, Gear, Rat, Everything }

\* Replies the schema of the request does not allow but JSON.parse accepts: one
\* without the required hp_change, and one whose xp_gained is negative.
HalfFormed ==
    [Quiet EXCEPT !.narrative = "A half-formed reply.", !.hp_change = NaN,
                  !.gold_change = 5, !.items_added = << Torch >>]
Cursed == [Quiet EXCEPT !.narrative = "A curse drains you.", !.xp_gained = -50]
UncheckedResponses == { HalfFormed, Cursed }

\* the `required` list of aiResponseSchema, for the number fields
conforms(rawData) ==
    /\ rawData.hp_change # NaN
    /\ rawData.xp_gained # NaN
    /\ rawData.supplies_consumed # NaN

RECURSIVE memoryRecord(_)
\* rawData.updated_npc_memories.forEach(item => memoryRecord[item.npcName] = item.memory)
memoryRecord(list) ==
    IF list = << >> THEN [n \in {} |-> ""]
    ELSE Merge([n \in {Head(list).npcName} |-> Head(list).memory], memoryRecord(Tail(list)))

\* { ...rawData, updated_npc_memories: memoryRecord }: after decoding the field is
\* always present (a sequence holding the one record)
Decoded(rawData) ==
    [rawData EXCEPT !.updated_npc_memories = << memoryRecord(rawData.updated_npc_memories) >>]

Synthetic(narrative, suggested) ==
    [Quiet EXCEPT !.narrative = narrative, !.suggested_actions = suggested,
                  !.current_terrain_type = "UNKNOWN"]

ConfigErrorResponse == Synthetic("Configuration Error: API_KEY is missing.", << >>)
RateLimitResponse ==
    Synthetic("You are breathless. The world spins. You must rest. (Rate Limit - Wait 6s)",
              << "Wait" >>)
GenericErrorResponse == Synthetic("The Weave is tangled. (Error)", << "Wait" >>)

\* What generateGameTurn resolves to: `kind` is how the call went
FailureKinds == {"config", "ratelimit", "generic"}

generateGameTurn(kind, rawData) ==
    CASE kind = "config" -> ConfigErrorResponse
      [] kind = "ratelimit" -> RateLimitResponse
      [] kind = "generic" -> GenericErrorResponse
      [] OTHER -> Decoded(rawData)

\* ----------------------------------------------------------- turn resolver

\* The part of a render's closure that handleAction reads
Closure(st, processing, cool) ==
    [ id |-> st.id, stats |-> st.player.stats, combatActive |-> st.combat.isActive,
      isGameOver |-> st.isGameOver, isProcessing |-> processing, cooldown |-> cool ]

\* String.prototype.trim
trim(text) == IF text \in {"", " ", "  "} THEN "" ELSE text

\* mutant: the guard forgets the cooldown
Rejected_noCooldown(c, actionText) ==
    \/ (trim(actionText) = "" /\ ~c.combatActive)
    \/ c.isProcessing
    \/ c.isGameOver

\* the guard of handleAction, on the values of its closure
Rejected(c, actionText) ==
    \/ (trim(actionText) = "" /\ ~c.combatActive)
    \/ c.isProcessing
    \/ c.cooldown
    \/ c.isGameOver

\* mutant: the new HP is not capped at maxHp
newHp_uncapped(stats, response) == Max(0, stats.hp + response.hp_change)

newHp(stats, response) ==
    mathMin(stats.maxHp, mathMax(0, plus(stats.hp, response.hp_change)))

newSupplies(stats, response) == Max(0, stats.supplies - response.supplies_consumed)
newXp(stats, response) == stats.xp + response.xp_gained
levelUp(stats, response) == newXp(stats, response) >= stats.level * LevelXp
newLevel(stats, response) ==
    IF levelUp(stats, response) THEN stats.level + 1 ELSE stats.level
newMaxHp(stats, response) ==
    IF levelUp(stats, response) THEN stats.maxHp + LevelHpBonus ELSE stats.maxHp

LevelUpEntry(level) == LogEntry("system", "LEVEL UP! Level " \o IntStr(level) \o ".")
GameOverEntry == LogEntry("system", "GAME OVER.")
ApiErrorEntry == LogEntry("system", "API Error.")

isOver(stats, response) ==
    lessOrEqual(newHp(stats, response), 0) \/ response.is_game_over

When(cond, action) == IF cond THEN << action >> ELSE << >>

\* handleAction after generateGameTurn has resolved; `stats` is
\* state.player.stats of the closure.  The narrator entry, the level-up entry
\* and UPDATE_STATS:
StatActions(stats, response) ==
    << Act("ADD_LOG", LogEntry("dm", response.narrative)) >>
    \o When(levelUp(stats, response),
            Act("ADD_LOG", LevelUpEntry(newLevel(stats, response))))
    \o << Act("UPDATE_STATS",
              [ hp |-> newHp(stats, response), supplies |-> newSupplies(stats, response),
                xp |-> newXp(stats, response), level |-> newLevel(stats, response),
                maxHp |-> newMaxHp(stats, response) ]) >>

\* UPDATE_GOLD, the ADD_ITEMs and the REMOVE_ITEMs
LootActions(response) ==
    When(response.gold_change # 0, Act("UPDATE_GOLD", response.gold_change))
    \o [i \in 1..Len(response.items_added) |-> Act("ADD_ITEM", response.items_added[i])]
    \o [i \in 1..Len(response.items_removed_names) |->
           Act("REMOVE_ITEM", response.items_removed_names[i])]

\* SET_LOCATION to ADD_JOURNAL
WorldActions(response) ==
    When(response.new_location_name # "",
         Act("SET_LOCATION", [ name |-> response.new_location_name,
                               desc |-> response.new_location_description ]))
    \o When(response.movement_direction # "" \/ response.current_terrain_type # "",
            Act("UPDATE_MAP",
                [ direction |-> IF response.movement_direction # ""
                                THEN response.movement_direction ELSE "NONE",
                  terrain |-> IF response.current_terrain_type # ""
                              THEN response.current_terrain_type ELSE "UNKNOWN" ]))
    \o When(response.updated_npc_memories # << >>,
            Act("UPDATE_NPC_MEMORY",
                IF response.updated_npc_memories # << >>
                THEN Head(response.updated_npc_memories) ELSE [n \in {} |-> ""]))
    \o When(response.reputation_change # 0,
            Act("UPDATE_REPUTATION", response.reputation_change))
    \o When(response.new_quest # << >> \/ response.quest_completed_id # "",
            Act("UPDATE_QUESTS", [ new |-> response.new_quest,
                                   completedId |-> response.quest_completed_id ]))
    \o When(response.new_journal_entry # "", Act("ADD_JOURNAL", response.new_journal_entry))

\* START_COMBAT, UPDATE_COMBAT, END_COMBAT
CombatActions(response) ==
    When(response.combat_start,
         Act("START_COMBAT",
             [ name |-> IF response.enemy_name # "" THEN response.enemy_name
                        ELSE "Unknown Enemy",
               hp |-> IF response.enemy_hp # 0 THEN response.enemy_hp ELSE DefaultEnemyHp,
               desc |-> IF response.enemy_desc # "" THEN response.enemy_desc
                        ELSE "A menacing foe.",
               type |-> response.enemy_type ]))
    \o When(response.enemy_damage_taken # 0,
            Act("UPDATE_COMBAT", [damage |-> response.enemy_damage_taken]))
    \o When(response.combat_ended, Act("END_COMBAT", << >>))

\* mutant: the closing log entry is dispatched before GAME_OVER
EndActions_logFirst(stats, response) ==
    IF isOver(stats, response)
    THEN << Act("ADD_LOG", GameOverEntry), Act("GAME_OVER", << >>) >>
    ELSE << >>

\* GAME_OVER and its log entry
EndActions(stats, response) ==
    IF isOver(stats, response)
    THEN << Act("GAME_OVER", << >>), Act("ADD_LOG", GameOverEntry) >>
    ELSE << >>

\* mutant: the fight is resolved before the world is updated
TurnActions_combatEarly(stats, response) ==
    StatActions(stats, response) \o LootActions(response) \o CombatActions(response)
    \o WorldActions(response) \o EndActions(stats, response)

\* the actions of one resolved turn, in dispatch order
TurnActions(stats, response) ==
    StatActions(stats, response) \o LootActions(response) \o WorldActions(response)
    \o CombatActions(response) \o EndActions(stats, response)

\* ------------------------------------------------------------------- state

VARIABLES
    state,          \* the GameState of useReducer
    saves,          \* localStorage 'aetheria_saves': save id -> GameState
    localSaves,     \* MainMenu's copy of the saves, read when the menu mounts
    apiKey,         \* whether process.env.API_KEY is set
    isInMenu, input, isProcessing, cooldown, suggestions, combatRolling,
    flights,        \* pending generateGameTurn calls, each with its closure
    rolls,          \* running die animations of CombatView, each with its closure
    timers,         \* pending setTimeout(() => setCooldown(false), 6000)
    nextId,         \* the next Date.now() save id
    games,          \* games entered from the menu so far
    turns,          \* accepted turns so far
    invOps,         \* inventory requests so far
    dispatched,     \* actions dispatched so far (SpecReducer)
    last            \* the operation that made the latest step

vars == << state, saves, localSaves, apiKey, isInMenu, input, isProcessing, cooldown,
           suggestions, combatRolling, flights, rolls, timers, nextId, games, turns,
           invOps, dispatched, last >>

ui == << isInMenu, input, isProcessing, cooldown, suggestions, combatRolling >>

InputTexts == {"", "look"}
RollValues == {20}

NoSaves == [i \in {} |-> createInitialState(i, "")]

\* A save left in localStorage by an earlier visit: a game of "Rin" whose first
\* turn ("Search the cellar", answered by Rat) began a fight.
EarlierSave ==
    LET fresh == LOAD_STATE(createInitialState(0, "Traveler"), createInitialState(1, "Rin"))
    IN dispatchAll(fresh, NoSaves,
                   << Act("ADD_LOG", LogEntry("player", "Search the cellar")) >>
                   \o TurnActions(fresh.player.stats, Decoded(Rat))).saves

Init ==
    /\ state = createInitialState(0, "Traveler")
    /\ saves = EarlierSave
    /\ localSaves = EarlierSave
    /\ apiKey \in BOOLEAN
    /\ isInMenu = TRUE
    /\ input = ""
    /\ isProcessing = FALSE
    /\ cooldown = FALSE
    /\ suggestions = << "Talk to Barkeep", "Look for quests" >>
    /\ combatRolling = FALSE
    /\ flights = << >>
    /\ rolls = << >>
    /\ timers = 0
    /\ nextId = 2
    /\ games = 0
    /\ turns = 0
    /\ invOps = 0
    /\ dispatched = 0
    /\ last = [op |-> "init"]

\* dispatch of `actions` by one handler: the reducer runs and auto-saves
Dispatch(actions) ==
    \E r \in { dispatchAll(state, saves, actions) } : state' = r.state /\ saves' = r.saves

\* ------------------------------------------------------------ presentation

\* MainMenu "Begin Journey" -> App.startGame; `limit` bounds the games of a run
startGameWithin(limit, name) ==
    /\ isInMenu
    /\ games < limit
    /\ games' = games + 1
    /\ Dispatch(<< Act("LOAD_STATE", createInitialState(nextId, name)) >>)
    /\ nextId' = nextId + 1
    /\ isInMenu' = FALSE
    /\ suggestions' = << "Talk to Barkeep", "Check Inventory" >>
    /\ last' = [op |-> "startGame"]
    /\ UNCHANGED << localSaves, apiKey, input, isProcessing, cooldown, combatRolling,
                    flights, rolls, timers, turns, invOps, dispatched >>

startGame(name) == startGameWithin(MaxGames, name)

\* MainMenu "Local Saves" -> App.loadGame
loadGameWithin(limit, id) ==
    /\ isInMenu
    /\ games < limit
    /\ games' = games + 1
    /\ id \in DOMAIN localSaves
    /\ Dispatch(<< Act("LOAD_STATE", localSaves[id]) >>)
    /\ isInMenu' = FALSE
    /\ last' = [op |-> "loadGame"]
    /\ UNCHANGED << localSaves, apiKey, input, isProcessing, cooldown, suggestions,
                    combatRolling, flights, rolls, timers, nextId, turns, invOps,
                    dispatched >>

loadGame(id) == loadGameWithin(MaxGames, id)

\* "SAVE & EXIT" and "RESTART": setIsInMenu(true); MainMenu mounts and reads the saves
exitToMenu ==
    /\ ~isInMenu
    /\ isInMenu' = TRUE
    /\ localSaves' = saves
    /\ last' = [op |-> "exitToMenu"]
    /\ UNCHANGED << state, saves, apiKey, input, isProcessing, cooldown, suggestions,
                    combatRolling, flights, rolls, timers, nextId, games, turns, invOps, dispatched >>

isInteractionDisabled == isProcessing \/ cooldown \/ state.isGameOver

\* handleAction up to its await, run with closure c; `op` names the caller
handleAction(c, actionText, op) ==
    IF Rejected(c, actionText)
    THEN /\ last' = [op |-> op, accepted |-> FALSE]
         /\ UNCHANGED << state, saves, isProcessing, suggestions, flights, turns >>
    ELSE /\ turns < MaxTurns
         /\ turns' = turns + 1
         /\ isProcessing' = TRUE
         /\ suggestions' = << >>
         /\ Dispatch(<< Act("ADD_LOG", LogEntry("player", actionText)) >>)
         /\ flights' = Append(flights, c)
         /\ last' = [op |-> op, accepted |-> TRUE]

\* submit-action: the player enters `text` (the input is disabled while
\* interaction is disabled or a fight is on) and presses ACT or Enter
submitAction(text) ==
    /\ ~isInMenu
    /\ text # input => (~isInteractionDisabled /\ ~state.combat.isActive)
    /\ input' = text
    /\ handleAction(Closure(state, isProcessing, cooldown), text, "submitAction")
    /\ UNCHANGED << localSaves, apiKey, isInMenu, cooldown, combatRolling, rolls,
                    timers, nextId, games, invOps, dispatched >>

isRolling == combatRolling \/ isProcessing \/ cooldown

\* CombatView.handleRoll: the click starts the die animation, whose last tick
\* calls the onRoll of the render the click happened in
rollClick ==
    /\ ~isInMenu
    /\ state.combat.isActive
    /\ ~isRolling
    /\ Len(rolls) < MaxRolls
    /\ rolls' = Append(rolls, Closure(state, isProcessing, cooldown))
    /\ last' = [op |-> "rollClick"]
    /\ UNCHANGED << state, saves, localSaves, apiKey, ui, flights, timers, nextId, games, turns,
                    invOps, dispatched >>

rollNarrative(roll) ==
    IF roll = 20 THEN "(NATURAL 20!) Critical Hit!"
    ELSE IF roll = 1 THEN "(NATURAL 1!) Critical Miss!"
    ELSE "[Combat Round] I rolled a " \o IntStr(roll)

\* the last tick of a die animation: App.handleCombatRoll with the closure of the click
handleCombatRoll(i, roll) ==
    /\ i \in 1..Len(rolls)
    /\ combatRolling' = TRUE
    /\ rolls' = splice(rolls, i)
    /\ handleAction(rolls[i], rollNarrative(roll), "combatRoll")
    /\ UNCHANGED << localSaves, apiKey, isInMenu, input, cooldown, timers, nextId,
                    games, invOps, dispatched >>

\* handleAction from the await on: the reply of flight i is `response`, or the call threw
narratorReply(i, kind, rawData) ==
    /\ i \in 1..Len(flights)
    /\ (kind = "config") = ~apiKey
    /\ LET c == flights[i]
           response == generateGameTurn(kind, rawData)
       IN /\ IF kind = "threw"
             THEN /\ Dispatch(<< Act("ADD_LOG", ApiErrorEntry) >>)
                  /\ UNCHANGED suggestions
             ELSE /\ Dispatch(TurnActions(c.stats, response))
                  /\ suggestions' = IF isOver(c.stats, response) THEN suggestions
                                    ELSE response.suggested_actions
          /\ last' = [op |-> "narratorReply", kind |-> kind, closure |-> c,
                      response |-> response,
                      actions |-> IF kind = "threw" THEN << Act("ADD_LOG", ApiErrorEntry) >>
                                  ELSE TurnActions(c.stats, response)]
    /\ flights' = splice(flights, i)
    /\ isProcessing' = FALSE
    /\ input' = ""
    /\ combatRolling' = FALSE
    /\ cooldown' = TRUE
    /\ timers' = timers + 1
    /\ UNCHANGED << localSaves, apiKey, isInMenu, rolls, nextId, games, turns, invOps, dispatched >>

\* mutant: the timeout fires without clearing the cooldown
cooldownTimer_keeps ==
    /\ timers > 0
    /\ timers' = timers - 1
    /\ last' = [op |-> "cooldownTimer"]
    /\ UNCHANGED << state, saves, localSaves, apiKey, isInMenu, input, isProcessing, cooldown,
                    suggestions, combatRolling, flights, rolls, nextId, games, turns, invOps,
                    dispatched >>

\* setTimeout(() => setCooldown(false), 6000) fires
cooldownTimer ==
    /\ timers > 0
    /\ timers' = timers - 1
    /\ cooldown' = FALSE
    /\ last' = [op |-> "cooldownTimer"]
    /\ UNCHANGED << state, saves, localSaves, apiKey, isInMenu, input, isProcessing,
                    suggestions, combatRolling, flights, rolls, nextId, games, turns, invOps, dispatched >>

\* Inventory's item modal, opened on an item of the list: Drop is always offered,
\* Equip for an unequipped item with a slot other than 'none', Unequip for an
\* equipped one
inventoryAction(type, name) ==
    /\ ~isInMenu
    /\ invOps < MaxInventoryOps
    /\ invOps' = invOps + 1
    /\ Dispatch(<< Act(type, name) >>)
    /\ last' = [op |-> type, name |-> name]
    /\ UNCHANGED << localSaves, apiKey, ui, flights, rolls, timers, nextId, games, turns,
                    dispatched >>

Listed == { state.player.inventory[i] : i \in 1..Len(state.player.inventory) }

handleDropItem == \E item \in Listed : inventoryAction("DROP_ITEM", item.name)

handleEquipItem ==
    \E item \in Listed :
       /\ item.slot \notin {"", "none"} /\ ~item.equipped
       /\ inventoryAction("EQUIP_ITEM", item.name)

handleUnequipItem ==
    \E item \in Listed :
       /\ item.slot \notin {"", "none"} /\ item.equipped
       /\ inventoryAction("UNEQUIP_ITEM", item.name)

ReplyKinds == {"ok", "config", "ratelimit", "generic", "threw"}

Next ==
    \/ startGame("Rin")
    \/ \E id \in DOMAIN localSaves : loadGame(id)
    \/ exitToMenu
    \/ \E text \in InputTexts : submitAction(text)
    \/ rollClick
    \/ \E i \in 1..MaxRolls, roll \in RollValues : handleCombatRoll(i, roll)
    \/ \E i \in 1..(MaxRolls + 1), kind \in ReplyKinds :
          \E rawData \in (IF kind = "ok" THEN Responses ELSE {Quiet}) :
             narratorReply(i, kind, rawData)
    \/ cooldownTimer
    \/ handleDropItem
    \/ handleEquipItem
    \/ handleUnequipItem

Spec == Init /\ [][Next]_vars

\* ------------------------------------------------- the reducer on its own

\* gameReducer driven directly: any action of the Action type, with payloads
\* from the sets below, on a game begun from createInitialState.
InitReducer ==
    /\ state = LOAD_STATE(createInitialState(0, "Traveler"), createInitialState(2, "Rin"))
    /\ saves = NoSaves
    /\ localSaves = NoSaves
    /\ apiKey = TRUE
    /\ isInMenu = FALSE
    /\ input = ""
    /\ isProcessing = FALSE
    /\ cooldown = FALSE
    /\ suggestions = << "Talk to Barkeep", "Check Inventory" >>
    /\ combatRolling = FALSE
    /\ flights = << >>
    /\ rolls = << >>
    /\ timers = 0
    /\ nextId = 3
    /\ games = 1
    /\ turns = 0
    /\ invOps = 0
    /\ dispatched = 0
    /\ last = [op |-> "init"]

dispatch(action) ==
    /\ dispatched < MaxDispatch
    /\ dispatched' = dispatched + 1
    /\ Dispatch(<< action >>)
    /\ last' = [op |-> "dispatch", type |-> action.type, action |-> action]
    /\ UNCHANGED << localSaves, apiKey, ui, flights, rolls, timers, nextId, games, turns,
                    invOps >>

Ring == Item("r", "Ring", 1, "none", FALSE)
Saved == { saves[i] : i \in DOMAIN saves }

LoadPayloads == { createInitialState(3, "Kai") } \cup Saved
StatsPayloads == { [hp |-> 0], [xp |-> 100, level |-> 2, maxHp |-> 17] }
GoldPayloads == { -20, 5 }
ItemPayloads == { Dagger, Torch, Ring, [Dagger EXCEPT !.equipped = TRUE] }
NamePayloads == { "Iron Shortsword", "Quest Log", "Dagger", "Torch", "Ring" }
QuestPayloads ==
    { [new |-> << RatQuest >>, completedId |-> ""],
      [new |-> << >>, completedId |-> "q1"],
      [new |-> << RatQuest >>, completedId |-> "q1"] }
MapPayloads ==
    { [direction |-> d, terrain |-> "FOREST"] : d \in {"NORTH", "SOUTH", "EAST", "WEST", "NONE"} }
CombatPayloads == { [name |-> "Rat", hp |-> 6, desc |-> "A menacing foe.", type |-> ""] }
\* enemy_damage_taken is any integer: a blow, a killing blow, a healing
DamagePayloads == { [damage |-> d] : d \in {4, 6, -3} }

NextReducer ==
    \/ \E p \in LoadPayloads : dispatch(Act("LOAD_STATE", p))
    \/ dispatch(Act("RESTART", << >>))
    \/ dispatch(Act("ADD_LOG", LogEntry("system", "A note.")))
    \/ \E p \in StatsPayloads : dispatch(Act("UPDATE_STATS", p))
    \/ \E p \in GoldPayloads : dispatch(Act("UPDATE_GOLD", p))
    \/ \E p \in ItemPayloads : dispatch(Act("ADD_ITEM", p))
    \/ \E p \in NamePayloads : dispatch(Act("REMOVE_ITEM", p))
    \/ \E p \in NamePayloads : dispatch(Act("DROP_ITEM", p))
    \/ \E p \in NamePayloads : dispatch(Act("EQUIP_ITEM", p))
    \/ \E p \in NamePayloads : dispatch(Act("UNEQUIP_ITEM", p))
    \/ dispatch(Act("SET_LOCATION", [name |-> "Dark Forest", desc |-> "Tall pines."]))
    \/ dispatch(Act("UPDATE_NPC_MEMORY", [n \in {"Barnaby"} |-> "Hostile"]))
    \/ dispatch(Act("UPDATE_REPUTATION", -1))
    \/ dispatch(Act("ADD_JOURNAL", "The rat king stirs."))
    \/ \E p \in QuestPayloads : dispatch(Act("UPDATE_QUESTS", p))
    \/ \E p \in MapPayloads : dispatch(Act("UPDATE_MAP", p))
    \/ \E p \in CombatPayloads : dispatch(Act("START_COMBAT", p))
    \/ \E p \in DamagePayloads : dispatch(Act("UPDATE_COMBAT", p))
    \/ dispatch(Act("END_COMBAT", << >>))
    \/ dispatch(Act("GAME_OVER", << >>))

SpecReducer == InitReducer /\ [][NextReducer]_vars

\* ------------------------------------------- the inventory actions in a row

\* ADD_ITEM, REMOVE_ITEM and DROP_ITEM dispatched one after another on a fresh
\* game of "Rin"; `last` keeps the actions so far and the inventory each of them
\* was applied to.
InitInventory ==
    /\ state = LOAD_STATE(createInitialState(0, "Traveler"), createInitialState(2, "Rin"))
    /\ saves = NoSaves
    /\ localSaves = NoSaves
    /\ apiKey = TRUE
    /\ isInMenu = FALSE
    /\ input = ""
    /\ isProcessing = FALSE
    /\ cooldown = FALSE
    /\ suggestions = << "Talk to Barkeep", "Check Inventory" >>
    /\ combatRolling = FALSE
    /\ flights = << >>
    /\ rolls = << >>
    /\ timers = 0
    /\ nextId = 3
    /\ games = 1
    /\ turns = 0
    /\ invOps = 0
    /\ dispatched = 0
    /\ last = [op |-> "init", acts |-> << >>, before |-> << >>]

dispatchItem(action) ==
    /\ dispatched < MaxInventorySteps
    /\ dispatched' = dispatched + 1
    /\ Dispatch(<< action >>)
    /\ last' = [op |-> "dispatch", acts |-> Append(last.acts, action),
                before |-> Append(last.before, state.player.inventory)]
    /\ UNCHANGED << localSaves, apiKey, ui, flights, rolls, timers, nextId, games, turns,
                    invOps >>

\* items_added entries of a narrator response: `quantity` is any integer
StackPayloads ==
    { Item("t", "Torch", q, "", FALSE) : q \in {0, 1, 2} }
    \cup { Item("3", "Quest Log", 1, "", FALSE), [Dagger EXCEPT !.equipped = TRUE] }
StackNames == { "Torch", "Quest Log", "Dagger" }

NextInventory ==
    \/ \E p \in StackPayloads : dispatchItem(Act("ADD_ITEM", p))
    \/ \E n \in StackNames : dispatchItem(Act("REMOVE_ITEM", n))
    \/ \E n \in StackNames : dispatchItem(Act("DROP_ITEM", n))

SpecInventory == InitInventory /\ [][NextInventory]_vars

\* ------------------------------------------------------------------ claims

stats == state.player.stats
inventory == state.player.inventory

IsReply == last.op = "narratorReply"
IsTurnRequest == last.op \in {"submitAction", "combatRoll"}

\* C1: in every state reached by turns (whatever integers the narrator sends)
\* and inventory requests, 0 <= hp <= maxHp and supplies >= 0.
C1_HpAndSuppliesClamped ==
    /\ 0 <= stats.hp /\ stats.hp <= stats.maxHp
    /\ stats.supplies >= 0

\* a turn whose hp_change and supplies_consumed overshoot has been applied
C1_Witness ==
    /\ IsReply /\ last.kind = "ok"
    /\ last.closure.stats.hp + last.response.hp_change > last.closure.stats.maxHp
    /\ last.closure.stats.supplies - last.response.supplies_consumed < 0
    /\ stats.hp = last.closure.stats.maxHp /\ stats.supplies = 0

\* C2: a request that reaches handleAction while a turn is in flight is rejected
\* (no narrator call, no log entry, no change of GameState), so that no turn
\* begins while another one is pending.
C2_InFlightRejected ==
    [][ /\ (isProcessing /\ IsTurnRequest')
           => (~last'.accepted /\ state' = state /\ flights' = flights)
        /\ Len(flights') <= 1 ]_vars

SameButLog(s, t) == [s EXCEPT !.gameLog = << >>] = [t EXCEPT !.gameLog = << >>]
IsPrefix(a, b) == Len(a) <= Len(b) /\ SubSeq(b, 1, Len(a)) = a

\* C3: a turn whose narrator call failed (credentials, rate limit, transport or
\* parse error, or a throw) changes GameState only by appending log entries.
C3_FailedTurnOnlyLogs ==
    [][ (IsReply' /\ last'.kind \in FailureKinds \cup {"threw"})
        => (SameButLog(state, state') /\ IsPrefix(state.gameLog, state'.gameLog)) ]_vars

Slotted(item) == item.slot \notin {"", "none"}
EquippedIn(slot) ==
    { i \in 1..Len(inventory) : inventory[i].slot = slot /\ inventory[i].equipped }

\* C4: for each slot other than `none` at most one item declaring it is equipped,
\* and right after EQUIP_ITEM(X) on an X that has a slot, X is the one equipped
\* item of its slot.
C4_SlotExclusive ==
    /\ \A i \in 1..Len(inventory) :
          Slotted(inventory[i]) => Cardinality(EquippedIn(inventory[i].slot)) <= 1
    /\ (last.op = "dispatch" /\ last.type = "EQUIP_ITEM")
          => LET idx == findIndex(inventory, last.action.payload, 1)
             IN (idx > 0 /\ inventory[idx].slot # "")
                   => EquippedIn(inventory[idx].slot) = {idx}

\* EQUIP_ITEM of the Dagger took the hand slot from the sword
C4_Witness ==
    /\ last.op = "dispatch" /\ last.type = "EQUIP_ITEM" /\ last.action.payload = "Dagger"
    /\ \E i, j \in 1..Len(inventory) :
          /\ inventory[i].name = "Dagger" /\ inventory[i].equipped
          /\ inventory[j].name = "Iron Shortsword" /\ ~inventory[j].equipped

\* C5: once isGameOver is true, no reducer action other than LOAD_STATE makes it false.
C5_GameOverOneWay ==
    [][ (state.isGameOver /\ last'.op = "dispatch" /\ last'.type # "LOAD_STATE")
        => state'.isGameOver ]_vars

\* a reducer action other than GAME_OVER and LOAD_STATE ran on a finished game
C5_Witness ==
    /\ state.isGameOver
    /\ last.op = "dispatch" /\ last.type \in {"RESTART", "UPDATE_STATS", "END_COMBAT"}

\* C6: once isGameOver is true, nothing the player or the resolver does before a
\* load or restart changes player, world or combat.
C6_FrozenAfterGameOver ==
    [][ (state.isGameOver /\ last'.op \notin {"startGame", "loadGame"})
        => /\ state'.player = state.player
           /\ state'.world = state.world
           /\ state'.combat = state.combat ]_vars

RECURSIVE LevelUps(_)
\* the level-up entries of a log
LevelUps(log) ==
    IF log = << >> THEN 0
    ELSE (IF \E n \in 1..9 : Head(log) = LevelUpEntry(n) THEN 1 ELSE 0) + LevelUps(Tail(log))

\* C7: a successful turn begun at xp = 0, level = 1 that grants 250 xp ends at
\* level 3 with maxHp raised by 10 and two level-up entries logged.
C7_MultiLevelUp ==
    [][ ( /\ IsReply' /\ last'.kind = "ok"
          /\ last'.closure.stats.xp = 0 /\ last'.closure.stats.level = 1
          /\ last'.response.xp_gained = 250 )
        => /\ state'.player.stats.level = 3
           /\ state'.player.stats.maxHp = last'.closure.stats.maxHp + 2 * LevelHpBonus
           /\ LevelUps(state'.gameLog) = LevelUps(state.gameLog) + 2 ]_vars

C9_TurnEndsInCooldown ==
    [][ /\ IsReply' => (~isProcessing' /\ input' = "" /\ cooldown')
        /\ (IsTurnRequest' /\ last'.accepted) => timers = 0 ]_vars

\* the step of the fixed order an action belongs to
StepOf(a) ==
    CASE a.type = "ADD_LOG" ->
            (IF a.payload.sender = "dm" THEN 1
             ELSE IF a.payload = GameOverEntry THEN 17 ELSE 2)
      [] a.type = "UPDATE_STATS" -> 3
      [] a.type = "UPDATE_GOLD" -> 4
      [] a.type = "ADD_ITEM" -> 5
      [] a.type = "REMOVE_ITEM" -> 6
      [] a.type = "SET_LOCATION" -> 7
      [] a.type = "UPDATE_MAP" -> 8
      [] a.type = "UPDATE_NPC_MEMORY" -> 9
      [] a.type = "UPDATE_REPUTATION" -> 10
      [] a.type = "UPDATE_QUESTS" -> 11
      [] a.type = "ADD_JOURNAL" -> 12
      [] a.type = "START_COMBAT" -> 13
      [] a.type = "UPDATE_COMBAT" -> 14
      [] a.type = "END_COMBAT" -> 15
      [] a.type = "GAME_OVER" -> 16
      [] OTHER -> 0

\* C10: the actions of a successful turn are applied in the fixed order: narrator
\* entry, level-up entry, UPDATE_STATS, UPDATE_GOLD, ADD_ITEMs, REMOVE_ITEMs,
\* SET_LOCATION, UPDATE_MAP, UPDATE_NPC_MEMORY, UPDATE_REPUTATION, UPDATE_QUESTS,
\* ADD_JOURNAL, START_COMBAT, UPDATE_COMBAT, END_COMBAT, GAME_OVER and its entry.
C10_FixedOrder ==
    (IsReply /\ last.kind # "threw")
    => LET a == last.actions
       IN /\ StepOf(a[1]) = 1
          /\ \A i \in 1..Len(a) : StepOf(a[i]) > 0
          /\ \A i, j \in 1..Len(a) :
                i < j => /\ StepOf(a[i]) <= StepOf(a[j])
                         /\ StepOf(a[i]) = StepOf(a[j]) => StepOf(a[i]) \in {5, 6}
          /\ (\E i \in 1..Len(a) : StepOf(a[i]) = 16) <=> (StepOf(a[Len(a)]) = 17)

\* a turn that dispatched an action of every step
C10_Witness ==
    /\ IsReply /\ last.kind = "ok"
    /\ { StepOf(last.actions[i]) : i \in 1..Len(last.actions) } = 1..17

\* the latest entry of the game log
LastLog(st) == st.gameLog[Len(st.gameLog)]

\* C11: after a successful turn isGameOver is true exactly when the turn's computed
\* HP is <= 0 or the response signals game over; then the terminal system entry is
\* the last of the log and the suggestions are kept, otherwise the suggestions are
\* the narrator's.
C11_GameOverIffComputed ==
    [][ (IsReply' /\ last'.kind = "ok")
        => LET over == isOver(last'.closure.stats, last'.response)
           IN /\ state'.isGameOver <=> over
              /\ over => (LastLog(state') = GameOverEntry /\ suggestions' = suggestions)
              /\ ~over => suggestions' = last'.response.suggested_actions ]_vars

\* the inventory the k-th action of SpecInventory left
After(k) == IF k < Len(last.acts) THEN last.before[k + 1] ELSE inventory

\* C12: ADD_ITEM of a name with quantity n >= 1 followed by n REMOVE_ITEMs of that
\* name leaves the inventory as it was before the ADD_ITEM.
C12_AddThenRemove ==
    \A i \in 1..Len(last.acts) :
       LET a == last.acts[i]
       IN (a.type = "ADD_ITEM" /\ a.payload.quantity >= 1)
          => LET n == a.payload.quantity
             IN ( /\ i + n <= Len(last.acts)
                  /\ \A j \in (i + 1)..(i + n) :
                        last.acts[j] = Act("REMOVE_ITEM", a.payload.name) )
                => After(i + n) = last.before[i]

\* the entries of an inventory that carry a name
Named(inv, name) == { k \in 1..Len(inv) : inv[k].name = name }

\* C13: ADD_ITEM of a name the inventory holds adds item.quantity to that entry and
\* adds no entry; ADD_ITEM of a new name appends one entry with equipped = FALSE.
\* So ADD_ITEM of "Torch" with quantity 1 and then 2 on a fresh state leaves one
\* "Torch" entry with quantity 3.
C13_AddItemStacks ==
    /\ \A i \in 1..Len(last.acts) :
          LET p == last.acts[i].payload
              b == last.before[i]
              idx == findIndex(b, p.name, 1)
          IN last.acts[i].type = "ADD_ITEM"
             => IF idx > 0
                THEN After(i) = [b EXCEPT ![idx].quantity = b[idx].quantity + p.quantity]
                ELSE /\ SubSeq(After(i), 1, Len(b)) = b
                     /\ Len(After(i)) = Len(b) + 1
                     /\ After(i)[Len(b) + 1] = [p EXCEPT !.equipped = FALSE]
    /\ ( /\ Len(last.acts) >= 2
         /\ last.acts[1] = Act("ADD_ITEM", Item("t", "Torch", 1, "", FALSE))
         /\ last.acts[2] = Act("ADD_ITEM", Item("t", "Torch", 2, "", FALSE)) )
       => \E k \in 1..Len(After(2)) :
             Named(After(2), "Torch") = {k} /\ After(2)[k].quantity = 3

\* "Torch" was added with quantity 1 and then 2, and a new item that came marked
\* as equipped was added too
C13_Witness ==
    /\ Len(last.acts) = 3
    /\ last.acts[1] = Act("ADD_ITEM", Item("t", "Torch", 1, "", FALSE))
    /\ last.acts[2] = Act("ADD_ITEM", Item("t", "Torch", 2, "", FALSE))
    /\ last.acts[3] = Act("ADD_ITEM", [Dagger EXCEPT !.equipped = TRUE])
    /\ \E k \in 1..Len(inventory) : inventory[k].name = "Torch" /\ inventory[k].quantity = 3
    /\ \E k \in 1..Len(inventory) : inventory[k].name = "Dagger" /\ ~inventory[k].equipped

\* C14: every entry of the inventory has quantity >= 1, whatever ADD_ITEMs (with
\* the quantities a narrator response can carry), REMOVE_ITEMs and DROP_ITEMs ran.
C14_QuantityPositive ==
    \A k \in 1..Len(inventory) : inventory[k].quantity >= 1

tiles == state.world.mapData.tiles
position == state.player.position
IsDispatch(type) == last.op = "dispatch" /\ last.type = type

\* the coordinate one unit from `pos` in direction `d`
Stepped(pos, d) ==
    CASE d = "NORTH" -> [x |-> pos.x, y |-> pos.y + 1]
      [] d = "SOUTH" -> [x |-> pos.x, y |-> pos.y - 1]
      [] d = "EAST" -> [x |-> pos.x + 1, y |-> pos.y]
      [] d = "WEST" -> [x |-> pos.x - 1, y |-> pos.y]
      [] OTHER -> pos

\* C15: UPDATE_MAP moves the position by one unit in the named direction (not at
\* all for NONE), sets the tile there to {type: terrain, visited: true} and leaves
\* every other tile as it was.
C15_UpdateMapStep ==
    [][ IsDispatch("UPDATE_MAP")'
        => LET p == last'.action.payload
               to == Stepped(position, p.direction)
               key == TileKey(to.x, to.y)
           IN /\ position' = to
              /\ DOMAIN tiles' = DOMAIN tiles \cup {key}
              /\ tiles'[key] = [type |-> p.terrain, visited |-> TRUE]
              /\ \A k \in DOMAIN tiles \ {key} : tiles'[k] = tiles[k] ]_vars

\* from (0,0), UPDATE_MAP(NORTH, FOREST) led to (0,1): tile "0,1" is the forest
\* and tile "0,0" is still the inn
C15_Witness ==
    /\ IsDispatch("UPDATE_MAP") /\ last.action.payload.direction = "NORTH"
    /\ dispatched = 1
    /\ position = [x |-> 0, y |-> 1]
    /\ DOMAIN tiles = {"0,0", "0,1"}
    /\ tiles["0,1"] = [type |-> "FOREST", visited |-> TRUE]
    /\ tiles["0,0"] = [type |-> "INN", visited |-> TRUE]

\* the coordinates a run of the bounded length can reach
Reach == (0 - MaxDispatch - 1)..(MaxDispatch + 1)

\* C16: UPDATE_MAP(d, t) applied to the same state again gives the same tile map,
\* which holds one entry for the destination, {type: t, visited: true}; a
\* coordinate has one key, and writing the same coordinate again adds no entry.
C16_UpdateMapIdempotent ==
    [][ IsDispatch("UPDATE_MAP")'
        => LET p == last'.action.payload
               to == Stepped(position, p.direction)
               again == UPDATE_MAP(state, p).world.mapData.tiles
               rewritten == UPDATE_MAP(state', [p EXCEPT !.direction = "NONE"])
           IN /\ again = tiles'
              /\ \A x1, y1 \in Reach :
                    (TileKey(x1, y1) = TileKey(to.x, to.y)) <=> (x1 = to.x /\ y1 = to.y)
              /\ Cardinality(DOMAIN tiles') =
                    Cardinality(DOMAIN tiles \cup {TileKey(to.x, to.y)})
              /\ tiles'[TileKey(to.x, to.y)] = [type |-> p.terrain, visited |-> TRUE]
              /\ rewritten.world.mapData.tiles = tiles' ]_vars

\* the tile of the inn, which was on the map, has been written again in place
C16_Witness ==
    /\ IsDispatch("UPDATE_MAP") /\ last.action.payload.direction = "NONE"
    /\ position = [x |-> 0, y |-> 0]
    /\ DOMAIN tiles = {"0,0"}
    /\ tiles["0,0"] = [type |-> "FOREST", visited |-> TRUE]

\* C17: UPDATE_COMBAT leaves the state as it is while combat is inactive, whatever
\* the damage; while combat is active it sets enemyHp to max(0, enemyHp - damage)
\* and changes nothing else.
C17_UpdateCombat ==
    [][ IsDispatch("UPDATE_COMBAT")'
        => IF ~state.combat.isActive
           THEN state' = state
           ELSE state' = [state EXCEPT !.combat.enemyHp =
                             Max(0, state.combat.enemyHp - last'.action.payload.damage)] ]_vars

\* C18: after a turn whose narrator call failed with a rate-limit error, the last
\* log entry has sender `system`, its content is not that of a generic failure,
\* and isGameOver is still false.
C18_RateLimitEntry ==
    [][ (IsReply' /\ last'.kind = "ratelimit" /\ ~state.isGameOver)
        => /\ LastLog(state').sender = "system"
           /\ LastLog(state').content # GenericErrorResponse.narrative
           /\ ~state'.isGameOver ]_vars

\* C19: after every reducer action other than GAME_OVER the save store holds,
\* under state.id, the state the reducer returned; and UPDATE_COMBAT on inactive
\* combat is the only case that returns without saving.
C19_SavedAfterAction ==
    [][ (last'.op = "dispatch" /\ last'.type # "GAME_OVER")
        => /\ state'.id \in DOMAIN saves'
           /\ saves'[state'.id] = state'
           /\ EarlyReturn(state, last'.action)
                 => (last'.type = "UPDATE_COMBAT" /\ ~state.combat.isActive) ]_vars

\* C20: GAME_OVER writes nothing to the save store.
C20_GameOverNotSaved ==
    [][ IsDispatch("GAME_OVER")' => saves' = saves ]_vars

\* GAME_OVER ran on a game whose saved snapshot is not over
C20_Witness ==
    /\ IsDispatch("GAME_OVER")
    /\ state.isGameOver
    /\ state.id \in DOMAIN saves
    /\ ~saves[state.id].isGameOver

\* --------------------------------------- the object gameReducer is given

\* `[...state.player.inventory]` and `.map(...)` copy the array, not the items:
\* the new array holds the very item objects of the old one, and the writes
\* `newInventory[idx].quantity += ...`, `newInv[idx].quantity -= 1` and
\* `newInv[idx].equipped = ...` land in the state the reducer was given.
\* given(st, action) is that state once gameReducer(st, action) has run.
given(st, action) ==
    LET inv == st.player.inventory
        idx == IF action.type = "ADD_ITEM" THEN findIndex(inv, action.payload.name, 1)
               ELSE IF action.type \in {"REMOVE_ITEM", "EQUIP_ITEM", "UNEQUIP_ITEM"}
               THEN findIndex(inv, action.payload, 1)
               ELSE 0
    IN IF idx = 0 THEN st
       ELSE CASE action.type = "ADD_ITEM" ->
                   [st EXCEPT !.player.inventory[idx].quantity =
                       inv[idx].quantity + action.payload.quantity]
              [] action.type = "REMOVE_ITEM" ->
                   IF inv[idx].quantity > 1
                   THEN [st EXCEPT !.player.inventory[idx].quantity = inv[idx].quantity - 1]
                   ELSE st
              [] action.type = "EQUIP_ITEM" ->
                   \* an equipped item of the slot was replaced by a copy in `map`
                   IF inv[idx].slot = "" \/ inv[idx].equipped THEN st
                   ELSE [st EXCEPT !.player.inventory[idx].equipped = TRUE]
              [] action.type = "UNEQUIP_ITEM" ->
                   [st EXCEPT !.player.inventory[idx].equipped = FALSE]

\* a game of "Rin" whose reducer is called action by action; `last` keeps the
\* state each call was given (arg), that same object after the call (given) and
\* what a second call on it returns (again)
InitGiven ==
    /\ state = LOAD_STATE(createInitialState(0, "Traveler"), createInitialState(2, "Rin"))
    /\ saves = NoSaves
    /\ localSaves = NoSaves
    /\ apiKey = TRUE
    /\ isInMenu = FALSE
    /\ input = ""
    /\ isProcessing = FALSE
    /\ cooldown = FALSE
    /\ suggestions = << "Talk to Barkeep", "Check Inventory" >>
    /\ combatRolling = FALSE
    /\ flights = << >>
    /\ rolls = << >>
    /\ timers = 0
    /\ nextId = 3
    /\ games = 1
    /\ turns = 0
    /\ invOps = 0
    /\ dispatched = 0
    /\ last = [op |-> "init"]

reduce(action) ==
    /\ dispatched < MaxDispatch
    /\ dispatched' = dispatched + 1
    /\ Dispatch(<< action >>)
    /\ last' = [op |-> "reduce", action |-> action, arg |-> state,
                given |-> given(state, action),
                again |-> gameReducer(given(state, action), action)]
    /\ UNCHANGED << localSaves, apiKey, ui, flights, rolls, timers, nextId, games, turns,
                    invOps >>

NextGiven ==
    \/ \E p \in ItemPayloads : reduce(Act("ADD_ITEM", p))
    \/ \E p \in NamePayloads : reduce(Act("REMOVE_ITEM", p))
    \/ \E p \in NamePayloads : reduce(Act("DROP_ITEM", p))
    \/ \E p \in NamePayloads : reduce(Act("EQUIP_ITEM", p))
    \/ \E p \in NamePayloads : reduce(Act("UNEQUIP_ITEM", p))
    \/ \E p \in GoldPayloads : reduce(Act("UPDATE_GOLD", p))
    \/ \E p \in QuestPayloads : reduce(Act("UPDATE_QUESTS", p))

SpecGiven == InitGiven /\ [][NextGiven]_vars

\* C21: gameReducer never modifies the state it is given: after
\* gameReducer(s, a) the state s, each inventory item record included, has the
\* field values it had before the call, and gameReducer(s, a) applied to s
\* once more returns a result equal to the first.
C21_ReducerPure ==
    last.op = "reduce" =>
        /\ last.given = last.arg
        /\ last.again = state

\* ------------------------------------------------ loading an older save

\* { ...r } without the fields an older save lacks
Without(r, fields) == [k \in DOMAIN r \ fields |-> r[k]]

StatFields == {"hp", "maxHp", "xp", "level", "supplies"}

\* a save of a game that has been played: no field has its starting value
PlayedSave ==
    LET fresh == createInitialState(3, "Kai")
    IN [fresh EXCEPT !.player.gold = 25,
                     !.player.journal = << "Arrived at the Gilded Griffin Inn.",
                                           "Met Barnaby." >>,
                     !.player.stats = [hp |-> 7, maxHp |-> 17, xp |-> 130, level |-> 2,
                                       supplies |-> 1]]

\* the save as a version of the program without gold, journal, stats or some
\* of the stat fields wrote it
PartialPayloads ==
    { [PlayedSave EXCEPT !.player =
          Without([PlayedSave.player EXCEPT !.stats = Without(PlayedSave.player.stats, ds)],
                  dp)] :
        dp \in SUBSET {"gold", "journal", "stats"}, ds \in SUBSET StatFields }

NextLoad == \E p \in PartialPayloads : dispatch(Act("LOAD_STATE", p))

SpecLoad == InitReducer /\ [][NextLoad]_vars

\* C22: LOAD_STATE with a payload that lacks gold, journal or any subset of
\* the stat fields completes and yields a state in which gold, journal and
\* every stat field are defined; a missing one has the default of the
\* LOAD_STATE case (createInitialState's value for a stat, 0 for gold, the
\* empty list for journal) and every field the payload supplies has the
\* payload's value.
C22_LoadPartial ==
    IsDispatch("LOAD_STATE") =>
        LET payload == last.action.payload
            p == payload.player
            supplied == IF "stats" \in DOMAIN p THEN DOMAIN p.stats ELSE {}
            default == createInitialState(payload.id, p.name).player.stats
        IN /\ {"gold", "journal", "stats"} \subseteq DOMAIN state.player
           /\ StatFields \subseteq DOMAIN state.player.stats
           /\ state.player.gold = IF "gold" \in DOMAIN p THEN p.gold ELSE 0
           /\ state.player.journal = IF "journal" \in DOMAIN p THEN p.journal ELSE << >>
           /\ \A f \in StatFields :
                 state.player.stats[f] = IF f \in supplied THEN p.stats[f] ELSE default[f]
           /\ \A k \in DOMAIN p \ {"stats"} : state.player[k] = p[k]
           /\ \A k \in DOMAIN payload \ {"player", "world"} : state[k] = payload[k]
           /\ state.world = payload.world

\* a save without gold, journal, hp and maxHp has been loaded: xp is the
\* save's, hp the starting value
C22_Witness ==
    /\ IsDispatch("LOAD_STATE")
    /\ DOMAIN last.action.payload.player \cap {"gold", "journal"} = {}
    /\ "stats" \in DOMAIN last.action.payload.player
    /\ DOMAIN last.action.payload.player.stats = {"xp", "level", "supplies"}
    /\ state.player.stats.xp = 130
    /\ state.player.stats.hp = InitialHp
    /\ state.player.gold = 0

\* ------------------------------------- turns on whatever the narrator sends

\* One game played by typed actions, the narrator replying with any of
\* Responses or UncheckedResponses: generateGameTurn hands on what JSON.parse
\* returns (`as RawAIResponse`) without looking at it.
NextNarrator ==
    \/ startGame("Rin")
    \/ \E text \in InputTexts : submitAction(text)
    \/ \E kind \in ReplyKinds :
          \E rawData \in (IF kind = "ok" THEN Responses \cup UncheckedResponses
                          ELSE {Quiet}) :
             narratorReply(1, kind, rawData)
    \/ cooldownTimer

SpecNarrator == Init /\ [][NextNarrator]_vars

\* C23: a reply that fails the schema (a required field such as hp_change is
\* missing) is handled as the generic error: no reducer action decoded from it
\* is applied, the turn changes GameState only by log entries.
C23_MalformedIsError ==
    [][ (IsReply' /\ last'.kind = "ok" /\ ~conforms(last'.response))
        => /\ SameButLog(state, state')
           /\ IsPrefix(state.gameLog, state'.gameLog)
           /\ \A i \in DOMAIN last'.actions : last'.actions[i].type = "ADD_LOG" ]_vars

\* ------------------------------------------------- turns that come to an end

\* some pending generateGameTurn call settles
narratorReplies ==
    \E i \in 1..(MaxRolls + 1), kind \in ReplyKinds :
       \E rawData \in (IF kind = "ok" THEN Responses ELSE {Quiet}) :
          narratorReply(i, kind, rawData)

\* The app with a narrator that answers every call (each failure is an answer
\* too) and a browser that fires every timeout it was given.
SpecFair == Init /\ [][Next]_vars /\ WF_vars(narratorReplies) /\ WF_vars(cooldownTimer)

\* C24: if the narrator replies and the cooldown timer fires, every accepted
\* turn is followed, sooner or later, by a state in which neither a turn is in
\* flight nor the cooldown is on, so that a new turn can be accepted.
C24_TurnComesToRest ==
    (IsTurnRequest /\ last.accepted) ~> (~isProcessing /\ ~cooldown)

\* a turn was accepted, answered, and its cooldown has run out
C24_Witness ==
    /\ last.op = "cooldownTimer"
    /\ turns >= 1
    /\ flights = << >>
    /\ timers = 0
    /\ ~isProcessing
    /\ ~cooldown
    /\ ~state.isGameOver

\* the number the header shows as "Turn": state.gameLog.length
turnNumber(st) == Len(st.gameLog)

\* C25: a rate-limited turn sets the suggestions to exactly ["Wait"], raises
\* neither the turnCount field nor the turn number derived from the log length,
\* and leaves hp, maxHp, level, xp, supplies, gold and the inventory unchanged.
C25_RateLimitedTurn ==
    [][ (IsReply' /\ last'.kind = "ratelimit")
        => /\ suggestions' = << "Wait" >>
           /\ state'.turnCount = state.turnCount
           /\ turnNumber(state') = turnNumber(state)
           /\ state'.player.stats = state.player.stats
           /\ state'.player.gold = state.player.gold
           /\ state'.player.inventory = state.player.inventory ]_vars

\* C26: whenever combat is active, 0 <= enemyHp <= enemyMaxHp, after any
\* sequence of START_COMBAT and UPDATE_COMBAT with the integers a narrator
\* response can carry as enemy_hp and enemy_damage_taken (zero and negative
\* ones included).
C26_EnemyHpInRange ==
    state.combat.isActive =>
        /\ 0 <= state.combat.enemyHp
        /\ state.combat.enemyHp <= state.combat.enemyMaxHp

\* the enemy of the fight, as far as no action but START_COMBAT may set it
Enemy(st) ==
    IF st.combat.isActive
    THEN << st.combat.enemyName, st.combat.enemyMaxHp, st.combat.enemyDescription >>
    ELSE << >>

\* C27: combat.isActive goes from false to true only in START_COMBAT and from
\* true to false only in END_COMBAT (LOAD_STATE aside); every other action,
\* GAME_OVER included, leaves isActive and the enemy's name, max HP and
\* description as they are; END_COMBAT leaves combat = {isActive: false} with
\* no enemy field.
C27_CombatTransitions ==
    [][ last'.op = "dispatch" =>
          /\ (~state.combat.isActive /\ state'.combat.isActive)
                => last'.type \in {"START_COMBAT", "LOAD_STATE"}
          /\ (state.combat.isActive /\ ~state'.combat.isActive)
                => last'.type \in {"END_COMBAT", "LOAD_STATE"}
          /\ last'.type \notin {"START_COMBAT", "END_COMBAT", "LOAD_STATE"}
                => /\ state'.combat.isActive = state.combat.isActive
                   /\ Enemy(state') = Enemy(state)
          /\ last'.type = "END_COMBAT" => state'.combat = [isActive |-> FALSE] ]_vars

\* GAME_OVER has been dispatched in the middle of a fight, which goes on
C27_Witness ==
    /\ IsDispatch("GAME_OVER")
    /\ state.isGameOver
    /\ state.combat.isActive
    /\ state.combat.enemyName = "Rat"

\* C28: across the turns of a game xp is never negative and never decreases,
\* whatever integer the narrator's response carries as xp_gained.
C28_XpMonotone ==
    [][ IsReply' => /\ 0 <= state'.player.stats.xp
                    /\ state.player.stats.xp <= state'.player.stats.xp ]_vars

\* C29: level and maxHp change only together, by the level-up rule: in every
\* state that turns and inventory actions reach, level >= 1, neither level nor
\* maxHp decreases, and maxHp is the starting maxHp plus 5 for each level above
\* the first.
C29_LevelAndMaxHp ==
    [][ last'.op \notin {"startGame", "loadGame"} =>
          /\ state'.player.stats.level >= 1
          /\ state'.player.stats.level >= state.player.stats.level
          /\ state'.player.stats.maxHp >= state.player.stats.maxHp
          /\ state'.player.stats.maxHp =
                InitialHp + LevelHpBonus * (state'.player.stats.level - 1) ]_vars

\* C30: UPDATE_GOLD(delta) sets gold to max(0, gold + delta), so gold is never
\* negative in a state reached from createInitialState, whatever the deltas.
C30_GoldFloor ==
    [][ last'.op = "dispatch" =>
          /\ state'.player.gold >= 0
          /\ last'.type = "UPDATE_GOLD" =>
                LET sum == state.player.gold + last'.action.payload
                IN state'.player.gold = IF sum > 0 THEN sum ELSE 0 ]_vars

\* a loss of 20 has emptied a purse that held less
C30_Witness ==
    /\ IsDispatch("UPDATE_GOLD")
    /\ last.action.payload = -20
    /\ state.player.gold = 0

quests(st) == st.player.activeQuests

\* C31: a quest that has completed = true keeps it in every later state reached
\* by reducer actions other than LOAD_STATE; UPDATE_QUESTS appends the new
\* quest first and marks completedId afterwards (so a quest that arrives with
\* its own id as completedId is completed at once), and no action removes a
\* quest or sets completed back to false.
C31_QuestsOnlyComplete ==
    [][ (last'.op = "dispatch" /\ last'.type # "LOAD_STATE") =>
          /\ Len(quests(state')) >= Len(quests(state))
          /\ \A i \in 1..Len(quests(state)) :
                /\ quests(state')[i].id = quests(state)[i].id
                /\ quests(state)[i].completed => quests(state')[i].completed
          /\ last'.type # "UPDATE_QUESTS" => quests(state') = quests(state)
          /\ last'.type = "UPDATE_QUESTS" =>
                LET payload == last'.action.payload
                IN /\ Len(quests(state')) = Len(quests(state)) + Len(payload.new)
                   /\ \A i \in 1..Len(quests(state')) :
                         quests(state')[i].completed =
                            \/ quests(state')[i].id = payload.completedId
                            \/ (i <= Len(quests(state)) /\ quests(state)[i].completed)
                            \/ (i > Len(quests(state)) /\ payload.new[1].completed) ]_vars

\* the quest q1 is taken a second time and reported done in the same action:
\* both entries, the older and the one just appended, are completed
C31_Witness ==
    /\ IsDispatch("UPDATE_QUESTS")
    /\ last.action.payload.new # << >>
    /\ last.action.payload.completedId = "q1"
    /\ Len(quests(state)) = 2
    /\ \A i \in 1..2 : quests(state)[i].id = "q1" /\ quests(state)[i].completed

\* C32: gameLog is append-only within a session: for every reducer action other
\* than LOAD_STATE the log before the action is a prefix of the log after it,
\* and ADD_LOG lengthens it by exactly one entry, its payload.
C32_LogAppendOnly ==
    [][ (last'.op = "dispatch" /\ last'.type # "LOAD_STATE") =>
          /\ IsPrefix(state.gameLog, state'.gameLog)
          /\ last'.type = "ADD_LOG" =>
                state'.gameLog = Append(state.gameLog, last'.action.payload)
          /\ last'.type # "ADD_LOG" => state'.gameLog = state.gameLog ]_vars

\* the same note has been logged twice in a row and stands twice in the log
C32_Witness ==
    /\ IsDispatch("ADD_LOG")
    /\ Len(state.gameLog) = 3
    /\ state.gameLog[2] = last.action.payload
    /\ state.gameLog[3] = last.action.payload

\* C33: the set of discovered tile keys never shrinks: for every reducer action
\* other than LOAD_STATE every key of world.mapData.tiles before the action is
\* a key after it, and only UPDATE_MAP changes any tile.
C33_TilesNeverShrink ==
    [][ (last'.op = "dispatch" /\ last'.type # "LOAD_STATE") =>
          /\ DOMAIN state.world.mapData.tiles \subseteq DOMAIN state'.world.mapData.tiles
          /\ last'.type # "UPDATE_MAP" =>
                state'.world.mapData.tiles = state.world.mapData.tiles ]_vars

\* two steps away from the inn: the map holds the inn and both tiles walked on
C33_Witness ==
    /\ IsDispatch("UPDATE_MAP")
    /\ dispatched = 2
    /\ Cardinality(DOMAIN state.world.mapData.tiles) = 3
    /\ "0,0" \in DOMAIN state.world.mapData.tiles
    /\ state.world.mapData.tiles["0,0"].type = "INN"

\* ------------------------------------------------ one game after another

\* Typed turns with "SAVE & EXIT" and the menu between them: up to MaxSessions
\* games are begun or loaded, and a narrator call made in one of them may
\* settle in the next.
NextSessions ==
    \/ startGameWithin(MaxSessions, "Kai")
    \/ \E id \in DOMAIN localSaves : loadGameWithin(MaxSessions, id)
    \/ exitToMenu
    \/ \E text \in InputTexts : submitAction(text)
    \/ \E kind \in ReplyKinds :
          \E rawData \in (IF kind = "ok" THEN Responses ELSE {Quiet}) :
             narratorReply(1, kind, rawData)
    \/ cooldownTimer

SpecSessions == Init /\ [][NextSessions]_vars

\* C34: the actions a turn produces are applied only to the game in which the
\* turn was submitted: when the reply arrives after the player has left to the
\* menu and begun or loaded another game, nothing of the turn is applied to
\* the state of that game.
C34_TurnStaysInItsGame ==
    [][ (IsReply' /\ last'.closure.id # state.id) => state' = state ]_vars

\* ------------------------------------------- the inventory panel during a turn

\* The app as in Next, the inventory panel being used only while a narrator
\* call is pending.
NextBusy ==
    \/ startGame("Rin")
    \/ \E id \in DOMAIN localSaves : loadGame(id)
    \/ exitToMenu
    \/ \E text \in InputTexts : submitAction(text)
    \/ rollClick
    \/ \E i \in 1..MaxRolls, roll \in RollValues : handleCombatRoll(i, roll)
    \/ narratorReplies
    \/ cooldownTimer
    \/ (flights # << >> /\ handleDropItem)
    \/ (flights # << >> /\ handleEquipItem)
    \/ (flights # << >> /\ handleUnequipItem)

SpecBusy == Init /\ [][NextBusy]_vars

\* the quantity held of `name` (0 when the inventory has no such entry)
Qty(inv, name) ==
    LET idx == findIndex(inv, name, 1) IN IF idx = 0 THEN 0 ELSE inv[idx].quantity

RECURSIVE Added(_, _)
\* what the ADD_ITEMs among `actions` add to `name`
Added(actions, name) ==
    IF actions = << >> THEN 0
    ELSE (IF Head(actions).type = "ADD_ITEM" /\ Head(actions).payload.name = name
          THEN Head(actions).payload.quantity ELSE 0) + Added(Tail(actions), name)

RECURSIVE Removed(_, _)
\* how many REMOVE_ITEMs among `actions` name `name`
Removed(actions, name) ==
    IF actions = << >> THEN 0
    ELSE (IF Head(actions).type = "REMOVE_ITEM" /\ Head(actions).payload = name
          THEN 1 ELSE 0) + Removed(Tail(actions), name)

ItemNames(st) == { st.player.inventory[k].name : k \in 1..Len(st.player.inventory) }

\* the inventory after a reply is the inventory it found, the panel's action
\* included, with the turn's ADD_ITEMs and REMOVE_ITEMs applied to it
InventoryFollows ==
    [][ (IsReply' /\ last'.kind # "threw") =>
          /\ \A n \in ItemNames(state) \cup ItemNames(state') :
                Qty(state'.player.inventory, n) =
                   Max(0, Qty(state.player.inventory, n) + Added(last'.actions, n)
                          - Removed(last'.actions, n))
          /\ \A n \in ItemNames(state) \cap ItemNames(state') :
                LET old == state.player.inventory[findIndex(state.player.inventory, n, 1)]
                    new == state'.player.inventory[findIndex(state'.player.inventory, n, 1)]
                IN new.equipped = old.equipped ]_vars

\* the panel's action takes effect whether or not a turn is in flight
PanelActs ==
    [][ /\ last'.op = "DROP_ITEM" => last'.name \notin ItemNames(state')
        /\ last'.op = "EQUIP_ITEM" =>
              state'.player.inventory[findIndex(state'.player.inventory, last'.name, 1)].equipped
        /\ last'.op = "UNEQUIP_ITEM" =>
              ~state'.player.inventory[findIndex(state'.player.inventory, last'.name, 1)].equipped
      ]_vars

\* the stats a turn leaves are those its response makes of the stats it finds
StatsAfter(st, response) ==
    [ hp |-> newHp(st, response), supplies |-> newSupplies(st, response),
      xp |-> newXp(st, response), level |-> newLevel(st, response),
      maxHp |-> newMaxHp(st, response) ]

\* C35: a DROP_ITEM, EQUIP_ITEM or UNEQUIP_ITEM dispatched while a turn is in
\* flight is not lost: once the turn's actions are applied the inventory shows
\* that action followed by the turn's ADD_ITEMs and REMOVE_ITEMs, and the
\* turn's UPDATE_STATS, computed from the snapshot taken at submission,
\* overwrites no change made during the flight.
C35_NothingLostInFlight ==
    [][ /\ last'.op = "DROP_ITEM" => last'.name \notin ItemNames(state')
        /\ last'.op = "EQUIP_ITEM" =>
              state'.player.inventory[findIndex(state'.player.inventory, last'.name, 1)].equipped
        /\ last'.op = "UNEQUIP_ITEM" =>
              ~state'.player.inventory[findIndex(state'.player.inventory, last'.name, 1)].equipped
        /\ (IsReply' /\ last'.kind # "threw" /\ invOps >= 1) =>
              /\ \A n \in ItemNames(state) \cup ItemNames(state') :
                    Qty(state'.player.inventory, n) =
                       Max(0, Qty(state.player.inventory, n) + Added(last'.actions, n)
                              - Removed(last'.actions, n))
              /\ state'.player.stats = StatsAfter(state.player.stats, last'.response)
      ]_vars

\* C36: in every state reached from createInitialState by reducer actions, the
\* map has a tile at the key formed from the player's position, and that tile
\* has visited = true.
C36_StandsOnVisitedTile ==
    LET key == TileKey(state.player.position.x, state.player.position.y)
    IN /\ key \in DOMAIN state.world.mapData.tiles
       /\ state.world.mapData.tiles[key].visited

\* a step north and a step west: the player stands at (-1, 1) on a forest tile
C36_Witness ==
    /\ IsDispatch("UPDATE_MAP")
    /\ state.player.position = [x |-> -1, y |-> 1]
    /\ "-1,1" \in DOMAIN state.world.mapData.tiles
    /\ state.world.mapData.tiles["-1,1"] = [type |-> "FOREST", visited |-> TRUE]

\* C37: in every state reached from createInitialState by reducer actions, no
\* two inventory entries have the same name, so that REMOVE_ITEM, DROP_ITEM,
\* EQUIP_ITEM and UNEQUIP_ITEM, which look an item up by its name, each address
\* exactly one entry.
C37_NamesUnique ==
    \A i, j \in 1..Len(state.player.inventory) :
       state.player.inventory[i].name = state.player.inventory[j].name => i = j

\* a Dagger has been found, taken in hand, and a second one found: one entry
C37_Witness ==
    /\ IsDispatch("ADD_ITEM")
    /\ last.action.payload.name = "Dagger"
    /\ Cardinality(Named(state.player.inventory, "Dagger")) = 1
    /\ \E k \in Named(state.player.inventory, "Dagger") :
          /\ state.player.inventory[k].quantity = 2
          /\ state.player.inventory[k].equipped

\* C38: at most one cooldown timer is pending at any time, and the cooldown
\* flag stays true from the end of a turn until that turn's timer fires: while
\* a timer is pending the flag is set, so that no timer of an earlier turn ends
\* the window of a later one.
C38_OneCooldownTimer ==
    /\ timers <= 1
    /\ timers > 0 => cooldown

\* C39: whenever a combat roll has set the combat-rolling flag, the flag is
\* eventually cleared: no roll is turned away by the guard of handleAction
\* (not even when the game is over while the fight is still on), which would
\* leave the flag set with no turn to clear it.
C39_RollingClears == combatRolling ~> ~combatRolling

\* a resolved turn has ended the game
EndedGame ==
    /\ IsReply
    /\ last.kind # "threw"
    /\ isOver(last.closure.stats, last.response)

\* C40: after a turn that ends the game has completed, the save store entry
\* under state.id has isGameOver = true and holds the closing "GAME OVER." log
\* entry: GAME_OVER itself is not saved, the ADD_LOG dispatched right after it is.
C40_EndIsSaved ==
    EndedGame =>
       /\ state.id \in DOMAIN saves
       /\ saves[state.id].isGameOver
       /\ \E i \in 1..Len(saves[state.id].gameLog) :
             saves[state.id].gameLog[i] = GameOverEntry

\* the player has fallen in a turn, and the saved game ends with "GAME OVER."
C40_Witness ==
    /\ EndedGame
    /\ state.player.stats.hp = 0
    /\ state.id \in DOMAIN saves
    /\ saves[state.id].isGameOver
    /\ LastLog(saves[state.id]) = GameOverEntry

====
